---- MODULE Spec2Model ----
(***************************************************************************)
(* GraphQLServer (server/http/src/server.rs): the HTTP front door of a     *)
(* graph-node.  GraphQLServer::new stores a component logger, the shared   *)
(* GraphQL runner and the node id; GraphQLServer::serve logs a start-up    *)
(* line, binds 0.0.0.0:port with hyper's Server::try_bind, registers a     *)
(* make_service_fn closure that builds one GraphQLService per accepted     *)
(* connection, and returns the hyper server future with its error mapped   *)
(* to an error-level log line.                                             *)
(*                                                                         *)
(* The operating system (which ports are taken, whether the process may    *)
(* bind privileged ports) and hyper's accept loop (one spawned connection  *)
(* task per accepted connection, connection errors kept inside that task)  *)
(* are the environment of serve; they are modelled as the state the        *)
(* actions below read and as the steps of a returned task.                 *)
(***************************************************************************)
EXTENDS Integers, Sequences, FiniteSets, TLC

\* ------------------------------------------------------------------ bounds
MaxCalls == 2
MaxConns == 2

\* ------------------------------------------------------------ input domains
\* (port, ws_port) pairs a caller passes to serve: port 0 (OS-assigned) and
\* a fixed port, a privileged one, with two secondary ports
ServeArgs == {<<0, 4001>>, <<80, 8001>>}
\* ports another process on the machine may already hold
ExternalPorts == {80}
\* (graphql_runner, node_id) pairs GraphQLServer::new is called with
NewArgs == {<<"B1", "N1">>, <<"B2", "N2">>}
\* io::Error causes an accept loop may end with
AcceptCauses == {"EMFILE"}

VARIABLES
    self,       \* the GraphQLServer value: logger, graphql_runner, node_id
    ctor,       \* the arguments GraphQLServer::new was called with
    os,         \* privileged: may bind ports < 1024; external: ports held by others
    calls,      \* history of serve calls: arguments, bind outcome, returned value
    tasks,      \* the server futures returned by serve, by call number
    conns,      \* connections accepted so far, in accept order
    handlers,   \* live GraphQLService values, by handler id
    made,       \* number of invocations of the make_service_fn closure
    log         \* what the slog drain behind the component logger received

vars == <<self, ctor, os, calls, tasks, conns, handlers, made, log>>

\* ------------------------------------------------------------ GraphQLServer
component_logger(component, index) ==
    [component |-> component, elastic_index |-> index]

new(graphql_runner, node_id) ==
    [logger |-> component_logger("GraphQLServer", "graphql-server-logs"),
     graphql_runner |-> graphql_runner,
     node_id |-> node_id]

\* GraphQLService::new(logger, graphql_runner, ws_port, node_id)
GraphQLService_new(logger, graphql_runner, ws_port, node_id) ==
    [logger |-> logger, graphql_runner |-> graphql_runner,
     ws_port |-> ws_port, node_id |-> node_id]

\* captures with the primary port moved into the closure as ws_port
captures_primary_port(srv, port, ws_port) ==
    [logger_for_service |-> srv.logger,
     graphql_runner |-> srv.graphql_runner,
     node_id |-> srv.node_id,
     ws_port |-> port]

\* captures with a logger of its own for the services instead of a clone
\* of the server's
captures_own_logger(srv, port, ws_port) ==
    [logger_for_service |-> [component |-> "GraphQLService", elastic_index |-> ""],
     graphql_runner |-> srv.graphql_runner,
     node_id |-> srv.node_id,
     ws_port |-> ws_port]

\* the values the make_service_fn closure moves in: clones of the logger,
\* the runner and the node id, and the ws_port argument of serve
captures(srv, port, ws_port) ==
    [logger_for_service |-> srv.logger,
     graphql_runner |-> srv.graphql_runner,
     node_id |-> srv.node_id,
     ws_port |-> ws_port]

\* new_service building the service with a fixed node id instead of the
\* captured one
new_service_fixed_node(cap) ==
    [ok |-> TRUE,
     service |-> GraphQLService_new(cap.logger_for_service, cap.graphql_runner,
                                    cap.ws_port, "N1")]

\* the closure body: one GraphQLService per invocation, always Ok and ready
new_service(cap) ==
    [ok |-> TRUE,
     service |-> GraphQLService_new(cap.logger_for_service, cap.graphql_runner,
                                    cap.ws_port, cap.node_id)]

\* ------------------------------------------------------------------ errors
hyper_Error(kind, cause) == [kind |-> kind, cause |-> cause]

description(kind) ==
    IF kind = "Listen" THEN "error creating server listener"
    ELSE "error accepting connection"

\* format!("{}", e) of a hyper::Error: its description, then its cause
Display(e) == <<description(e.kind), e.cause>>

\* #[from] hyper::Error: the conversion the ? operator applies
BindError(e) == [variant |-> "BindError", source |-> e]

\* ------------------------------------------------------------- environment
Privileged(port) == port \in 1..1023

Running == {t \in DOMAIN tasks : tasks[t].status = "running"}

\* the port the OS gives a bind to port 0: some free port of the ephemeral
\* range, which is never exhausted.  Which one is immaterial to serve; the
\* model takes another one for every call.
Ephemeral(n) == 32768 + n

\* ports held by a live listener, of this process or of another
Occupied == os.external \cup {tasks[t].addr : t \in Running}

\* try_bind on a socket that shares the port (SO_REUSEPORT): a taken port is
\* not refused
try_bind_reuse_port(port) ==
    IF port = 0
    THEN {[ok |-> TRUE, addr |-> Ephemeral(Len(calls))]}
    ELSE IF Privileged(port) /\ ~os.privileged
         THEN {[ok |-> FALSE, err |-> hyper_Error("Listen", "PermissionDenied")]}
         ELSE {[ok |-> TRUE, addr |-> port]}

\* Server::try_bind(&addr): the outcomes the OS can give for 0.0.0.0:port.
\* Port 0 is given an ephemeral port.  A taken port is refused with
\* AddrInUse, a privileged port is refused to an unprivileged process with
\* PermissionDenied; when both apply the platform decides which is reported.
try_bind(port) ==
    IF port = 0
    THEN {[ok |-> TRUE, addr |-> Ephemeral(Len(calls))]}
    ELSE LET inUse == IF port \in Occupied
                      THEN {[ok |-> FALSE, err |-> hyper_Error("Listen", "AddrInUse")]}
                      ELSE {}
             denied == IF Privileged(port) /\ ~os.privileged
                       THEN {[ok |-> FALSE, err |-> hyper_Error("Listen", "PermissionDenied")]}
                       ELSE {}
         IN  IF inUse \cup denied # {} THEN inUse \cup denied
             ELSE {[ok |-> TRUE, addr |-> port]}

\* --------------------------------------------------------------------- log
\* call is the number of the serve call the line stems from (bookkeeping,
\* not part of the line)
info_line(call, port) ==
    [level |-> "INFO",
     msg |-> <<"Starting GraphQL HTTP server at: http://localhost:{}", port>>,
     kv |-> <<>>,
     call |-> call]

error_line(call, e) ==
    [level |-> "ERRO",
     msg |-> <<"Server error">>,
     kv |-> << <<"error", Display(e)>> >>,
     call |-> call]

\* serve_log with the line moved behind the bind: nothing is logged when
\* the bind fails
serve_log_after_bind(lg, call, port, r) ==
    IF r.ok THEN Append(lg, info_line(call, port)) ELSE lg

\* serve_log with the info! line removed
serve_log_silent(lg, call, port, r) == lg

\* info!(logger, "Starting ...", port), before the address is built or bound
serve_log(lg, call, port, r) == Append(lg, info_line(call, port))

\* ------------------------------------------------------------------- serve
\* serve_result with the bind left to the task: serve returns Ok whatever
\* the bind will say
serve_result_deferred(r, id) == [tag |-> "Ok", task |-> id]

\* Server::try_bind(..)? : the value serve returns
serve_result(r, id) ==
    IF r.ok THEN [tag |-> "Ok", task |-> id]
    ELSE [tag |-> "Err", err |-> BindError(r.err)]

\* serve_task with the ? dropped: the server is built whatever try_bind said
serve_task_unchecked(r, id, srv, port, ws_port) ==
    id :> [status |-> "running",
           addr |-> IF r.ok THEN r.addr ELSE port,
           cap |-> captures(srv, port, ws_port),
           logger |-> srv.logger,
           error |-> <<>>,
           output |-> <<>>]

\* the future serve boxes: the bound listener with the closure registered.
\* error holds the hyper::Error the server future resolved with, output the
\* value the boxed future resolved with; both are empty until then
serve_task(r, id, srv, port, ws_port) ==
    IF r.ok
    THEN id :> [status |-> "running",
                addr |-> r.addr,
                cap |-> captures(srv, port, ws_port),
                logger |-> srv.logger,
                error |-> <<>>,
                output |-> <<>>]
    ELSE <<>>

\* serve_self with the runner moved out of the server into the closure
serve_self_moving(srv, r) == [srv EXCEPT !.graphql_runner = "moved"]

\* the server after serve(&mut self, ..): serve clones the logger, the
\* runner and the node id and assigns no field, whatever the bind says
serve_self(srv, r) == srv

Serve(port, ws_port) ==
    /\ Len(calls) < MaxCalls
    /\ LET id == Len(calls) + 1 IN
       \E r \in try_bind(port) :
          /\ self' = serve_self(self, r)
          /\ log' = serve_log(log, id, port, r)
          /\ tasks' = tasks @@ serve_task(r, id, self, port, ws_port)
          /\ calls' = Append(calls, [port |-> port, ws_port |-> ws_port,
                                     occupied |-> port \in Occupied,
                                     bind |-> r,
                                     result |-> serve_result(r, id)])
    /\ UNCHANGED <<ctor, os, conns, handlers, made>>

\* ------------------------------------------------- the returned server task
Open == {c \in 1..Len(conns) : conns[c].status = "open"}

\* make_service keeping one service per listener and handing it to every
\* connection of that listener
make_service_shared(hs, n, cap) ==
    LET same == {h \in DOMAIN hs : hs[h] = new_service(cap).service} IN
    IF same # {}
    THEN [id |-> CHOOSE h \in same : TRUE, handlers |-> hs]
    ELSE [id |-> n + 1, handlers |-> hs @@ ((n + 1) :> new_service(cap).service)]

\* hyper's accept loop, one accepted connection: the closure is invoked
\* once, its service gets a handler slot of its own, and the connection is
\* spawned as a task of its own holding that service
make_service(hs, n, cap) ==
    [id |-> n + 1, handlers |-> hs @@ ((n + 1) :> new_service(cap).service)]

\* afterFailure records whether a connection of the same listener had
\* already failed when this one was accepted
FailedOn(t) == {c \in 1..Len(conns) : conns[c].task = t /\ conns[c].status = "failed"}

Accept(t) ==
    /\ t \in Running
    /\ Len(conns) < MaxConns
    /\ new_service(tasks[t].cap).ok
    /\ LET m == make_service(handlers, made, tasks[t].cap) IN
          /\ handlers' = m.handlers
          /\ made' = made + 1
          /\ conns' = Append(conns, [task |-> t, handler |-> m.id,
                                     status |-> "open",
                                     afterFailure |-> FailedOn(t) # {}])
    /\ UNCHANGED <<self, ctor, os, calls, tasks, log>>

\* the end of a connection's task, with or without an error, drops its service
drop_service(hs, h) == [x \in DOMAIN hs \ {h} |-> hs[x]]

\* the connection is served to its end without an error
ConnClose(c) ==
    /\ c \in Open
    /\ conns' = [conns EXCEPT ![c].status = "closed"]
    /\ handlers' = drop_service(handlers, conns[c].handler)
    /\ UNCHANGED <<self, ctor, os, calls, tasks, made, log>>

\* on_connection_error with the error handed to the server future, which
\* then resolves
on_connection_error_fatal(ts, t) ==
    [ts EXCEPT ![t].status = "completed"]

\* an error while serving a connection ends the connection's own task;
\* nothing of it reaches the server future or the component logger
on_connection_error(ts, t) == ts

connection_error_log(lg, t) == lg

ConnFail(c) ==
    /\ c \in Open
    /\ conns' = [conns EXCEPT ![c].status = "failed"]
    /\ handlers' = drop_service(handlers, conns[c].handler)
    /\ tasks' = on_connection_error(tasks, conns[c].task)
    /\ log' = connection_error_log(log, conns[c].task)
    /\ UNCHANGED <<self, ctor, os, calls, made>>

\* map_err without the error! line
map_err_silent(lg, t, e) ==
    [log |-> lg,
     output |-> [ok |-> FALSE, value |-> <<>>]]

\* map_err handing the error on as the task's error value
map_err_passthrough(lg, t, e) ==
    [log |-> Append(lg, error_line(t, e)),
     output |-> [ok |-> FALSE, value |-> <<e>>]]

\* .map_err(move |e| error!(logger, "Server error"; "error" => format!("{}", e)))
\* the error of the server future is logged and replaced by (), the empty
\* tuple
map_err(lg, t, e) ==
    [log |-> Append(lg, error_line(t, e)),
     output |-> [ok |-> FALSE, value |-> <<>>]]

\* on_listener_error taking every listener of the server down
on_listener_error_all(ts, t, e, out) ==
    [u \in DOMAIN ts |->
        IF u = t
        THEN [ts[u] EXCEPT !.status = "completed", !.error = <<e>>, !.output = <<out>>]
        ELSE [ts[u] EXCEPT !.status = "dropped"]]

\* the server future resolves with an error: only that task completes
on_listener_error(ts, t, e, out) ==
    [ts EXCEPT ![t].status = "completed", ![t].error = <<e>>, ![t].output = <<out>>]

ListenerFail(t, cause) ==
    /\ t \in Running
    /\ LET e == hyper_Error("Accept", cause)
           m == map_err(log, t, e) IN
          /\ log' = m.log
          /\ tasks' = on_listener_error(tasks, t, e, m.output)
    /\ UNCHANGED <<self, ctor, os, calls, conns, handlers, made>>

\* DropTask aborting the connections the listener had accepted
DropTask_aborting(t) ==
    /\ t \in Running
    /\ tasks' = [tasks EXCEPT ![t].status = "dropped"]
    /\ conns' = [c \in 1..Len(conns) |->
                    IF conns[c].task = t /\ conns[c].status = "open"
                    THEN [conns[c] EXCEPT !.status = "failed"]
                    ELSE conns[c]]
    /\ handlers' = [h \in DOMAIN handlers \
                        {conns[c].handler : c \in {d \in Open : conns[d].task = t}}
                    |-> handlers[h]]
    /\ UNCHANGED <<self, ctor, os, calls, made, log>>

\* the caller drops the boxed future: the listener is closed with it; the
\* connections it accepted run in tasks of their own and stay
DropTask(t) ==
    /\ t \in Running
    /\ tasks' = [tasks EXCEPT ![t].status = "dropped"]
    /\ UNCHANGED <<self, ctor, os, calls, conns, handlers, made, log>>

\* ------------------------------------------------------------ specification
Init ==
    /\ \E a \in NewArgs :
          /\ ctor = [graphql_runner |-> a[1], node_id |-> a[2]]
          /\ self = new(a[1], a[2])
    /\ \E p \in BOOLEAN, ext \in SUBSET ExternalPorts :
          os = [privileged |-> p, external |-> ext]
    /\ calls = <<>>
    /\ tasks = <<>>
    /\ conns = <<>>
    /\ handlers = <<>>
    /\ made = 0
    /\ log = <<>>

Next ==
    \/ \E a \in ServeArgs : Serve(a[1], a[2])
    \/ \E t \in DOMAIN tasks : Accept(t)
    \/ \E c \in 1..Len(conns) : ConnClose(c)
    \/ \E c \in 1..Len(conns) : ConnFail(c)
    \/ \E t \in DOMAIN tasks, cause \in AcceptCauses : ListenerFail(t, cause)
    \/ \E t \in DOMAIN tasks : DropTask(t)

Spec == Init /\ [][Next]_vars

\* ------------------------------------------------------------------ claims
Failed == {i \in 1..Len(calls) : ~calls[i].bind.ok}
Succeeded == {i \in 1..Len(calls) : calls[i].bind.ok}
LinesOf(i) == {k \in 1..Len(log) : log[k].call = i}
Room == Len(conns) < MaxConns

\* C1: a serve call whose bind fails returns BindError carrying the error
\* try_bind gave, produces no task, and no connection is ever accepted for it.
C1_BindFailureReturnsBindError ==
    \A i \in Failed :
        /\ calls[i].result.tag = "Err"
        /\ calls[i].result.err.variant = "BindError"
        /\ calls[i].result.err.source = calls[i].bind.err
        /\ i \notin DOMAIN tasks
        /\ \A c \in 1..Len(conns) : conns[c].task # i

\* a failed serve call, while a listener of another call has accepted connections
C1_Witness ==
    /\ Failed # {}
    /\ Len(conns) > 0

\* C2: a failure while serving one connection changes no listener and no
\* other connection; every running listener still accepts, and every open
\* connection has its handler.
C2_FailureContained ==
    /\ [](/\ \A t \in Running : Room => ENABLED Accept(t)
          /\ \A c \in Open : conns[c].handler \in DOMAIN handlers)
    /\ [][\A c \in 1..Len(conns) :
            (conns[c].status = "open" /\ conns'[c].status = "failed") =>
                /\ tasks' = tasks
                /\ \A d \in 1..Len(conns) \ {c} :
                      /\ conns'[d] = conns[d]
                      /\ d \in Open => /\ conns[d].handler \in DOMAIN handlers'
                                       /\ handlers'[conns[d].handler] = handlers[conns[d].handler]
         ]_vars

\* a connection accepted after a failed one of the same listener, served to its end
C2_Witness ==
    \E c \in 1..Len(conns) :
        /\ conns[c].afterFailure
        /\ conns[c].status = "closed"
        /\ conns[c].task \in Running

\* C3: the server's runner and node id are the ones passed to new, and so
\* are those of every handler a returned task has created.
C3_HandlersReferenceBackendAndNode ==
    /\ self.graphql_runner = ctor.graphql_runner
    /\ self.node_id = ctor.node_id
    /\ \A h \in DOMAIN handlers :
          /\ handlers[h].graphql_runner = ctor.graphql_runner
          /\ handlers[h].node_id = ctor.node_id

\* a live handler created after two successful serve calls and a connection failure
C3_Witness ==
    \E c \in Open :
        /\ conns[c].afterFailure
        /\ conns[c].handler \in DOMAIN handlers
        /\ Cardinality(DOMAIN tasks) > 1

\* a listener is live on each port at most once
OneListenerPerPort ==
    \A t, u \in Running : tasks[t].addr = tasks[u].addr => t = u

\* the serve call was refused a port it may not bind
Denied(i) == Privileged(calls[i].port) /\ ~os.privileged

\* C4 as stated: a serve call on a port held by a live listener returns
\* BindError wrapping address-in-use and produces no task; at most one
\* listener exists per port; a serve call on port 0 succeeds with a task.
C4_OccupiedPortIsAddrInUse ==
    /\ \A i \in 1..Len(calls) :
          calls[i].occupied =>
              /\ calls[i].result.tag = "Err"
              /\ calls[i].result.err.variant = "BindError"
              /\ calls[i].result.err.source.cause = "AddrInUse"
              /\ i \notin DOMAIN tasks
    /\ OneListenerPerPort
    /\ \A i \in 1..Len(calls) :
          calls[i].port = 0 => calls[i].result.tag = "Ok" /\ i \in DOMAIN tasks

\* C4 amended: as C4, but the wrapped condition is address-in-use only when
\* the process may bind the port; on a privileged port it may not bind, the
\* condition may be permission-denied instead.
C4_OccupiedPortIsBindFailure ==
    /\ \A i \in 1..Len(calls) :
          calls[i].occupied =>
              /\ calls[i].result.tag = "Err"
              /\ calls[i].result.err.variant = "BindError"
              /\ calls[i].result.err.source.cause \in {"AddrInUse", "PermissionDenied"}
              /\ ~Denied(i) => calls[i].result.err.source.cause = "AddrInUse"
              /\ i \notin DOMAIN tasks
    /\ OneListenerPerPort
    /\ \A i \in 1..Len(calls) :
          calls[i].port = 0 => calls[i].result.tag = "Ok" /\ i \in DOMAIN tasks

\* a second serve call on the port of a running listener of the first one,
\* refused with address-in-use
C4_Witness ==
    \E i, j \in 1..Len(calls) :
        /\ i < j
        /\ i \in Running
        /\ calls[j].port = calls[i].port
        /\ calls[j].occupied
        /\ calls[j].result.tag = "Err"
        /\ calls[j].result.err.source.cause = "AddrInUse"

ErrorLines == {k \in 1..Len(log) : log[k].level = "ERRO"}
Completed == {t \in DOMAIN tasks : tasks[t].status = "completed"}

C6_TaskCompletesOnlyOnListenerFailure ==
    \A t \in DOMAIN tasks :
        /\ tasks[t].status = "completed" <=> tasks[t].output # <<>>
        /\ tasks[t].status = "completed" =>
              /\ tasks[t].error # <<>>
              /\ tasks[t].error[1].kind = "Accept"
              /\ tasks[t].output[1] = [ok |-> FALSE, value |-> <<>>]
              /\ \E k \in LinesOf(t) :
                    /\ log[k].level = "ERRO"
                    /\ log[k].kv = << <<"error", <<"error accepting connection",
                                                  tasks[t].error[1].cause>> >> >>

\* a task that completed while a connection of it had failed earlier and
\* another is still open
C6_Witness ==
    \E t \in Completed :
        /\ \E c \in Open : conns[c].task = t
        /\ \E c \in 1..Len(conns) : conns[c].task = t /\ conns[c].status = "failed"

\* C7 as stated: a serve call whose bind fails has written no line
\* announcing the server.
C7_NoAnnouncementOnBindFailure ==
    \A i \in Failed : \A k \in LinesOf(i) : log[k].level # "INFO"

\* C7 amended: a serve call whose bind fails has written the "Starting
\* GraphQL HTTP server" line, which precedes the bind, and nothing else: no
\* further line, no task, no connection.
C7_OnlyStartingLineOnBindFailure ==
    \A i \in Failed :
        /\ Cardinality(LinesOf(i)) = 1
        /\ \A k \in LinesOf(i) :
              /\ log[k].level = "INFO"
              /\ log[k].msg[2] = calls[i].port
        /\ i \notin DOMAIN tasks
        /\ \A c \in 1..Len(conns) : conns[c].task # i

\* a failed serve call followed by a successful one
C7_Witness ==
    \E i \in Failed : \E j \in Succeeded : i < j

\* C8: every accepted connection has invoked the closure once, which is
\* always Ok; the service it got is held by that connection alone, is
\* dropped with it, and is never changed by a step of another connection.
C8_OneHandlerPerConnection ==
    /\ [](/\ made = Len(conns)
          /\ \A t \in DOMAIN tasks : new_service(tasks[t].cap).ok
          /\ \A c \in Open : conns[c].handler \in DOMAIN handlers
          /\ \A c, d \in 1..Len(conns) : conns[c].handler = conns[d].handler => c = d
          /\ DOMAIN handlers = {conns[c].handler : c \in Open})
    /\ [][/\ \A h \in DOMAIN handlers \cap DOMAIN handlers' : handlers'[h] = handlers[h]
          /\ \A c \in 1..Len(conns) : conns'[c].handler = conns[c].handler
          /\ \A c, d \in Open :
                (c # d /\ conns'[c].status # "open") => conns[d].handler \in DOMAIN handlers'
         ]_vars

\* two connections of one listener open at once, each with a service of its own
C8_Witness ==
    \E c, d \in Open :
        /\ c # d
        /\ conns[c].task = conns[d].task
        /\ conns[c].handler # conns[d].handler
        /\ {conns[c].handler, conns[d].handler} \subseteq DOMAIN handlers

\* C9: the service of every connection carries the ws_port of the serve
\* call whose task accepted it.
C9_HandlerCarriesWsPort ==
    \A c \in Open :
        handlers[conns[c].handler].ws_port = calls[conns[c].task].ws_port

\* connections of two serve calls with different ws_port, each service
\* with its own call's value
C9_Witness ==
    \E c, d \in Open :
        /\ conns[c].task # conns[d].task
        /\ calls[conns[c].task].ws_port # calls[conns[d].task].ws_port
        /\ handlers[conns[c].handler].ws_port # handlers[conns[d].handler].ws_port

\* C10: a serve call on a port that is free and may be bound succeeds,
\* whatever calls came before; the services of all listeners hold the same
\* runner and node id; and when one task completes or is dropped, every
\* other task, its connections and their services are unchanged and it
\* still accepts.
C10_IndependentListeners ==
    /\ [](/\ \A i \in 1..Len(calls) :
                (~calls[i].occupied /\ ~Denied(i)) =>
                    calls[i].result.tag = "Ok" /\ i \in DOMAIN tasks
          /\ \A g, h \in DOMAIN handlers :
                /\ handlers[g].graphql_runner = handlers[h].graphql_runner
                /\ handlers[g].node_id = handlers[h].node_id
          /\ \A t \in Running : Room => ENABLED Accept(t))
    /\ [][\A t \in DOMAIN tasks :
            (tasks[t].status = "running" /\ tasks'[t].status # "running") =>
                /\ \A u \in DOMAIN tasks \ {t} : tasks'[u] = tasks[u]
                /\ conns' = conns
                /\ handlers' = handlers
         ]_vars

\* two listeners on different ports, both started before the server future
\* of one failed (its error line follows the other's start-up line); the
\* other is running, serves a connection and accepts the next
C10_Witness ==
    \E t \in Running, u \in Completed :
        /\ calls[u].port # calls[t].port
        /\ \E k \in LinesOf(t), m \in LinesOf(u) : k < m /\ log[m].level = "ERRO"
        /\ \E c \in Open : conns[c].task = t /\ conns[c].handler \in DOMAIN handlers
        /\ Room
        /\ ENABLED Accept(t)

Dropped == {t \in DOMAIN tasks : tasks[t].status = "dropped"}

\* C11: once a task is dropped it stays dropped and its listener accepts
\* no further connection; the step that drops it changes no connection and
\* no service, so the connections in flight go on.
C11_DroppedTaskAcceptsNothing ==
    /\ [](\A t \in Dropped : ~ENABLED Accept(t))
    /\ [][/\ \A t \in Dropped :
                /\ tasks'[t].status = "dropped"
                /\ \A c \in (Len(conns) + 1)..Len(conns') : conns'[c].task # t
          /\ \A t \in Running :
                tasks'[t].status = "dropped" => conns' = conns /\ handlers' = handlers
         ]_vars

\* a dropped task with a connection still open, its service alive and able
\* to be served to its end, while the bound leaves room for another accept
C11_Witness ==
    \E t \in Dropped : \E c \in Open :
        /\ conns[c].task = t
        /\ conns[c].handler \in DOMAIN handlers
        /\ ENABLED ConnClose(c)
        /\ Room
        /\ ~ENABLED Accept(t)

InfoLinesOf(i) == {k \in LinesOf(i) : log[k].level = "INFO"}

\* the connections a step accepts
Accepted == {c \in 1..Len(conns') : c > Len(conns)}

\* C12 as stated: every serve call has written exactly one informational
\* line, which names the address the listener is bound to, and the line is
\* in the log before the listener's first connection is accepted.
C12_OneLineWithBoundAddress ==
    /\ [](\A i \in 1..Len(calls) :
             /\ Cardinality(InfoLinesOf(i)) = 1
             /\ i \in DOMAIN tasks =>
                   \A k \in InfoLinesOf(i) : log[k].msg[2] = tasks[i].addr)
    /\ [][\A c \in Accepted : InfoLinesOf(conns'[c].task) # {}]_vars

\* C12 amended: every serve call has written exactly one informational
\* line, which names the port passed to serve (0 for an OS-assigned port,
\* not the port the listener got), and the line is in the log before the
\* listener's first connection is accepted.
C12_OneLineWithRequestedPort ==
    /\ [](\A i \in 1..Len(calls) :
             /\ Cardinality(InfoLinesOf(i)) = 1
             /\ \A k \in InfoLinesOf(i) :
                   /\ log[k].msg[1] = "Starting GraphQL HTTP server at: http://localhost:{}"
                   /\ log[k].msg[2] = calls[i].port)
    /\ [][\A c \in Accepted : InfoLinesOf(conns'[c].task) # {}]_vars

\* a listener bound for port 0 whose line names port 0 and not its address,
\* with a connection accepted
C12_Witness ==
    \E c \in 1..Len(conns) :
        LET t == conns[c].task IN
        /\ calls[t].port = 0
        /\ \A k \in InfoLinesOf(t) : log[k].msg[2] = 0 /\ log[k].msg[2] # tasks[t].addr
        /\ InfoLinesOf(t) # {}

\* C13: the value serve returned tells the outcome of the bind and never
\* changes afterwards: Err(BindError) exactly when the bind failed, Ok with
\* a task exactly when it succeeded; a task that completes later yields no
\* error value; and a connection is accepted only for a call that had
\* already returned Ok.
C13_BindDecidedBeforeReturn ==
    /\ [](/\ \A i \in 1..Len(calls) :
                /\ calls[i].result.tag = "Err" <=> ~calls[i].bind.ok
                /\ calls[i].result.tag = "Ok" <=> i \in DOMAIN tasks
          /\ \A t \in DOMAIN tasks :
                tasks[t].output # <<>> => tasks[t].output[1].value = <<>>
          /\ \A c \in 1..Len(conns) :
                conns[c].task \in 1..Len(calls) /\ calls[conns[c].task].bind.ok)
    /\ [][/\ \A i \in 1..Len(calls) : calls'[i] = calls[i]
          /\ \A c \in Accepted :
                /\ conns'[c].task \in 1..Len(calls)
                /\ calls[conns'[c].task].result.tag = "Ok"
         ]_vars

\* a call that returned Ok, whose task accepted a connection and then
\* completed with a listener error, next to a call that returned Err
C13_Witness ==
    \E t \in Completed : \E i \in Failed :
        /\ calls[t].result.tag = "Ok"
        /\ calls[i].result.tag = "Err"
        /\ \E c \in 1..Len(conns) : conns[c].task = t

\* C14: no step changes the server's logger, runner or node id, so they
\* are those new stored; the outcome of a serve call depends on the port's
\* state alone (taken by a live listener, denied to the process), not on
\* failed calls before it, and its task captures the server's fields.
C14_ServeLeavesServerUnchanged ==
    /\ [][self' = self]_vars
    /\ [](/\ self.logger = [component |-> "GraphQLServer",
                            elastic_index |-> "graphql-server-logs"]
          /\ self.graphql_runner = ctor.graphql_runner
          /\ self.node_id = ctor.node_id
          /\ \A j \in 1..Len(calls) :
                calls[j].result.tag = "Ok" <=> (~calls[j].occupied /\ ~Denied(j))
          /\ \A t \in DOMAIN tasks :
                /\ tasks[t].cap.graphql_runner = self.graphql_runner
                /\ tasks[t].cap.node_id = self.node_id
                /\ tasks[t].cap.logger_for_service = self.logger
                /\ tasks[t].logger = self.logger)

\* a failed serve call followed by a successful one on another port, whose
\* listener serves a connection with the server's runner and node id
C14_Witness ==
    \E i \in Failed : \E j \in Succeeded : \E c \in Open :
        /\ i < j
        /\ calls[i].port # calls[j].port
        /\ conns[c].task = j
        /\ handlers[conns[c].handler].graphql_runner = ctor.graphql_runner
        /\ handlers[conns[c].handler].node_id = ctor.node_id

\* C15: the logger of every live service and the logger every task logs
\* with equal the server's logger, the component logger new built: tag
\* "GraphQLServer", elastic index "graphql-server-logs".
C15_HandlersShareComponentLogger ==
    /\ self.logger.component = "GraphQLServer"
    /\ self.logger.elastic_index = "graphql-server-logs"
    /\ \A h \in DOMAIN handlers :
          /\ handlers[h].logger = self.logger
          /\ handlers[h].logger.component = "GraphQLServer"
          /\ handlers[h].logger.elastic_index = "graphql-server-logs"
    /\ \A t \in DOMAIN tasks : tasks[t].logger = self.logger

\* services of two serve calls alive at once, both with the server's logger
C15_Witness ==
    \E c, d \in Open :
        /\ conns[c].task # conns[d].task
        /\ handlers[conns[c].handler].logger = self.logger
        /\ handlers[conns[d].handler].logger = self.logger

====
